---- MODULE Spec2Model ----
(***************************************************************************)
(* A model of the job/service queue core of QCFractal:                     *)
(*   - TorsionDriveDataset.compute  (interface/collections/                *)
(*     torsiondrive_dataset.py), the deduplicated submission engine;       *)
(*   - BaseMongoSocket (storage_sockets/base_mongo_socket.py): the task    *)
(*     queue, the hooks, the queue managers and the users.                 *)
(* The components share no state, so each has its own next-state relation  *)
(* and specification over the same variables; Spec is their composition.   *)
(***************************************************************************)
EXTENDS Integers, Sequences, FiniteSets, TLC

VARIABLES
    \* ---- TorsionDriveDataset (one collection object held by one client)
    records,        \* self.data.records: item key -> TDRecord
    history,        \* self.data.history: Set[str]
    saved,          \* the collection as last persisted by self.save()
    services,       \* the service store behind client.add_service
    ncalls,         \* number of compute() calls made so far
    last,           \* the latest compute() call: arguments, outcome, state before
    prev,           \* the compute() call before the latest one
    \* ---- Several clients, each with its own copy of the stored collection
    cc,             \* per client: its copy of the collection, where it is in compute()
    \* ---- TorsionDriveDataset.counts
    torsiondrives,  \* the TorsionDrive record of every (entry, specification)
    df_columns,     \* list(self.df.columns): the specifications queried so far
    ct,             \* the latest counts() call: arguments and outcome
    ncounts,        \* number of counts() calls made so far
    \* ---- Task queue (BaseMongoSocket.queue_*)
    task_queue,     \* the task_queue table, oldest first
    gn,             \* per caller: where it is in queue_get_next
    polls,          \* the queue_get_next calls made so far, in call order
    \* ---- Queue managers (BaseMongoSocket.manager_update)
    queue_managers, \* the queue_managers table
    clock,          \* what datetime.utcnow() answers next
    mu,             \* per client: where it is in manager_update
    beats,          \* the manager_update calls made so far, in call order
    \* ---- Hooks (BaseMongoSocket.handle_hooks)
    service_queue,  \* the service_queue table: _id -> document
    hk,             \* the handle_hooks call in progress or last made
    nhooks,         \* number of handle_hooks calls made so far
    \* ---- Users (BaseMongoSocket.add_user / verify_user / remove_user)
    users,          \* the users table
    bypass_security,\* self._bypass_security
    ul,             \* the latest user call: arguments, result, table before
    nuserops        \* number of user calls made so far

computeVars == <<records, history, saved, services, ncalls, last, prev>>

concurrentVars == <<cc>>

countsVars == <<torsiondrives, df_columns, ct, ncounts>>

queueVars == <<task_queue, gn, polls>>

managerVars == <<queue_managers, clock, mu, beats>>

hookVars == <<service_queue, hk, nhooks>>

userVars == <<users, bypass_security, ul, nuserops>>

vars == <<computeVars, concurrentVars, countsVars, queueVars, managerVars, hookVars, userVars>>

\* What the operations of one component leave alone
notCompute == <<concurrentVars, countsVars, queueVars, managerVars, hookVars, userVars>>
notCounts  == <<computeVars, concurrentVars, queueVars, managerVars, hookVars, userVars>>
notQueue   == <<computeVars, concurrentVars, countsVars, managerVars, hookVars, userVars>>
notManager == <<computeVars, concurrentVars, countsVars, queueVars, hookVars, userVars>>
notHooks   == <<computeVars, concurrentVars, countsVars, queueVars, managerVars, userVars>>
notUsers   == <<computeVars, concurrentVars, countsVars, queueVars, managerVars, hookVars>>
\* ... and what compute() run by one of several clients leaves alone: the
\* collection object of the single client and the other components
notConcurrent ==
    <<records, history, last, prev,
      countsVars, queueVars, managerVars, hookVars, userVars>>

\* Python's None, where the other values are strings
None == "None"

\* An optional set of names (subset: Set[str] = None)
NoSubset == [given |-> FALSE, names |-> {}]

SomeSubset(S) == [given |-> TRUE, names |-> S]

\* The store never raises
NoFault == -1

(***************************************************************************)
(* Bounds                                                                  *)
(***************************************************************************)
MaxCalls == 2
MaxSubmitters == 2
MaxCounts == 1
MaxTasks == 2
MaxWorkers == 2
MaxPolls == 2
MaxClients == 2
MaxBeats == 2
MaxHookCalls == 1
MaxUserOps == 3

(***************************************************************************)
(* Strings whose letter case matters are sequences of characters.          *)
(***************************************************************************)
LowerChar(c) ==
    CASE c = "S" -> "s"
      [] c = "T" -> "t"
      [] c = "X" -> "x"
      [] OTHER   -> c

Lower_Identity(s) == s

\* str.lower()
Lower(s) == [i \in 1..Len(s) |-> LowerChar(s[i])]

(***************************************************************************)
(* The collection the client holds: three entries, two specifications.     *)
(***************************************************************************)
\* iteration order of self.data.records.values() (dict insertion order)
ItemOrder == <<"a", "b", "c">>

Items == {ItemOrder[i] : i \in 1..Len(ItemOrder)}

\* TDRecord of a freshly added entry: empty object_map
NewRecord(name) ==
    [name             |-> name,
     initial_molecules |-> <<"mol_" \o name>>,
     td_keywords      |-> "kw_" \o name,
     object_map       |-> <<>>]

\* self.data.specs: lower-cased name -> TorsionDriveSpecification
specs ==
    [n \in {<<"s">>, <<"t">>} |->
        [name              |-> n,
         optimization_spec |-> <<"opt">> \o n,
         qc_spec           |-> <<"qc">> \o n]]

\* get_specification(name): the specification, or a KeyError
HasSpecification(name) == Lower(name) \in DOMAIN specs

get_specification(name) == specs[Lower(name)]

(***************************************************************************)
(* compute()                                                               *)
(***************************************************************************)
\* TorsionDriveInput(initial_molecule=..., keywords=..., optimization_spec=..., qc_spec=...)
TorsionDriveInput(rec, spec) ==
    [initial_molecule  |-> rec.initial_molecules,
     keywords          |-> rec.td_keywords,
     optimization_spec |-> spec.optimization_spec,
     qc_spec           |-> spec.qc_spec]

\* client.add_service([service], tag=tag, priority=priority): the store after it
add_service(store, service, tag, priority) ==
    Append(store, [id       |-> Len(store) + 1,
                   service  |-> service,
                   tag      |-> tag,
                   priority |-> priority,
                   status   |-> "WAITING"])

\* ... .ids[0] of the response: the identifier of the service just stored
add_service_id(store) == Len(store) + 1

AlreadySubmitted_Never(rec, specification) == FALSE

\* `if specification in rec.object_map: continue`
AlreadySubmitted(rec, specification) == specification \in DOMAIN rec.object_map

SkipBySubset_Truthy(rec, subset) ==
    subset.given /\ subset.names # {} /\ rec.name \notin subset.names

\* `if (subset is not None) and (rec.name not in subset): continue`
SkipBySubset(rec, subset) == subset.given /\ rec.name \notin subset.names

SetObjectMap_Drop(rec, specification, id) == rec

SetObjectMap_Replace(rec, specification, id) ==
    [rec EXCEPT !.object_map = [k \in {specification} |-> id]]

\* `rec.object_map[specification] = <id>`
SetObjectMap(rec, specification, id) ==
    [rec EXCEPT !.object_map =
        [k \in DOMAIN rec.object_map \cup {specification} |->
            IF k = specification THEN id ELSE rec.object_map[k]]]

\* The loop over self.data.records.values(), from the i-th record on.  st holds
\* the records, the service store and the `submitted` counter; budget is the
\* number of add_service calls the store still answers before it raises a
\* storage error (NoFault: it never does).  st.raised tells the loop was left by
\* that exception.
RECURSIVE ComputeLoop(_, _, _, _, _, _, _, _)
ComputeLoop(i, st, specification, spec, subset, tag, priority, budget) ==
    IF i > Len(ItemOrder) THEN st
    ELSE LET key == ItemOrder[i]
             rec == st.records[key]
         IN  IF AlreadySubmitted(rec, specification) \/ SkipBySubset(rec, subset)
             THEN ComputeLoop(i + 1, st, specification, spec, subset, tag, priority, budget)
             ELSE IF budget = 0
             THEN [st EXCEPT !.raised = TRUE]
             ELSE LET service == TorsionDriveInput(rec, spec)
                      id      == add_service_id(st.services)
                      st2     == [records   |-> [st.records EXCEPT
                                                   ![key] = SetObjectMap(rec, specification, id)],
                                  services  |-> add_service(st.services, service, tag, priority),
                                  submitted |-> st.submitted + 1,
                                  raised    |-> FALSE]
                  IN  ComputeLoop(i + 1, st2, specification, spec, subset, tag, priority,
                                  IF budget = NoFault THEN NoFault ELSE budget - 1)

\* self.save(): the collection is written to the store
save(recs, hist) == [records |-> recs, history |-> hist]

\* The arguments compute() is called with
SpecificationArgs == {<<"s">>, <<"S">>, <<"t">>, <<"x">>}
SubsetArgs        == {NoSubset, SomeSubset({}), SomeSubset({"a"}), SomeSubset({"b", "c"})}
TagPriorityArgs   == {<<None, None>>, <<"gpu", "high">>}
BudgetArgs        == {NoFault, 0, 1}

history_add_Skip(hist, specification) == hist

\* `self.data.history.add(specification)`
history_add(hist, specification) == hist \cup {specification}

Compute_HistoryFirst(specification0, subset0, tag, priority, budget) ==
    /\ ncalls < MaxCalls
    /\ ncalls' = ncalls + 1
    /\ UNCHANGED notCompute
    /\ prev' = last
    /\ LET args == [specification |-> specification0, subset |-> subset0,
                    tag |-> tag, priority |-> priority]
           pre  == [records |-> records, history |-> history,
                    saved |-> saved, nservices |-> Len(services)]
           specification == Lower(specification0)
           \* `if subset: subset = set(subset)`: a set stays the set it is,
           \* None and the empty set are left alone
           subset == subset0
       IN  IF ~HasSpecification(specification)
           THEN \* get_specification raises: nothing was touched yet
                /\ last' = [args |-> args, raised |-> "KeyError", ret |-> 0, pre |-> pre]
                /\ history' = history_add(history, specification)
                /\ saved'   = save(records, history_add(history, specification))
                /\ UNCHANGED <<records, services>>
           ELSE LET spec == get_specification(specification)
                    st0  == [records |-> records, services |-> services,
                             submitted |-> 0, raised |-> FALSE]
                    st   == ComputeLoop(1, st0, specification, spec, subset,
                                        tag, priority, budget)
                IN  /\ records'  = st.records
                    /\ services' = st.services
                    /\ IF st.raised
                       THEN \* the exception leaves compute() before history.add and save()
                            /\ last' = [args |-> args, raised |-> "StorageError", ret |-> 0, pre |-> pre]
                            /\ UNCHANGED <<history, saved>>
                       ELSE /\ history' = history_add(history, specification)
                            /\ saved'   = save(st.records, history_add(history, specification))
                            /\ last'    = [args |-> args, raised |-> None, ret |-> st.submitted, pre |-> pre]

\* compute(specification, subset, tag, priority)
Compute(specification0, subset0, tag, priority, budget) ==
    /\ ncalls < MaxCalls
    /\ ncalls' = ncalls + 1
    /\ UNCHANGED notCompute
    /\ prev' = last
    /\ LET args == [specification |-> specification0, subset |-> subset0,
                    tag |-> tag, priority |-> priority]
           pre  == [records |-> records, history |-> history,
                    saved |-> saved, nservices |-> Len(services)]
           specification == Lower(specification0)
           \* `if subset: subset = set(subset)`: a set stays the set it is,
           \* None and the empty set are left alone
           subset == subset0
       IN  IF ~HasSpecification(specification)
           THEN \* get_specification raises: nothing was touched yet
                /\ last' = [args |-> args, raised |-> "KeyError", ret |-> 0, pre |-> pre]
                /\ UNCHANGED <<records, history, saved, services>>
           ELSE LET spec == get_specification(specification)
                    st0  == [records |-> records, services |-> services,
                             submitted |-> 0, raised |-> FALSE]
                    st   == ComputeLoop(1, st0, specification, spec, subset,
                                        tag, priority, budget)
                IN  /\ records'  = st.records
                    /\ services' = st.services
                    /\ IF st.raised
                       THEN \* the exception leaves compute() before history.add and save()
                            /\ last' = [args |-> args, raised |-> "StorageError", ret |-> 0, pre |-> pre]
                            /\ UNCHANGED <<history, saved>>
                       ELSE /\ history' = history_add(history, specification)
                            /\ saved'   = save(st.records, history_add(history, specification))
                            /\ last'    = [args |-> args, raised |-> None, ret |-> st.submitted, pre |-> pre]

\* No call yet (raised = "NoCall")
NoCall ==
    [args   |-> [specification |-> <<>>, subset |-> NoSubset, tag |-> None, priority |-> None],
     raised |-> "NoCall",
     ret    |-> 0,
     pre    |-> [records |-> [k \in Items |-> NewRecord(k)], history |-> {},
                 saved |-> save([k \in Items |-> NewRecord(k)], {}), nservices |-> 0]]

InitCompute ==
    /\ records  = [k \in Items |-> NewRecord(k)]
    /\ history  = {}
    /\ saved    = save([k \in Items |-> NewRecord(k)], {})
    /\ services = <<>>
    /\ ncalls   = 0
    /\ last     = NoCall
    /\ prev     = NoCall

NextCompute ==
    \E specification \in SpecificationArgs, subset \in SubsetArgs,
       tp \in TagPriorityArgs, budget \in BudgetArgs :
        Compute(specification, subset, tp[1], tp[2], budget)


(***************************************************************************)
(* compute() run by several clients.  Each client holds its own copy of    *)
(* the stored collection; every add_service call and the save() at the end *)
(* is one request to the server, and the requests of the clients           *)
(* interleave.                                                             *)
(***************************************************************************)
\* The clients that hold a copy of the collection
Submitters == 1..MaxSubmitters

\* The position of the first record from i on that compute() does not skip,
\* Len(ItemOrder) + 1 when there is none
RECURSIVE NextToSubmit(_, _, _, _)
NextToSubmit(i, recs, specification, subset) ==
    IF i > Len(ItemOrder) THEN i
    ELSE IF AlreadySubmitted(recs[ItemOrder[i]], specification)
            \/ SkipBySubset(recs[ItemOrder[i]], subset)
    THEN NextToSubmit(i + 1, recs, specification, subset)
    ELSE i

\* A client that is not inside compute(), holding the collection data
IdleClient(data) ==
    [pc |-> "idle", data |-> data, i |-> 0, specification |-> <<>>,
     subset |-> NoSubset, tag |-> None, priority |-> None, submitted |-> 0, ret |-> 0]

\* client.get_collection(...): the client loads the stored collection
LoadCollection(c) ==
    /\ cc[c].pc = "idle"
    /\ cc[c].data # saved
    /\ cc' = [cc EXCEPT ![c] = IdleClient(saved)]
    /\ UNCHANGED <<services, saved, ncalls, notConcurrent>>

\* compute() is entered: the name is lower-cased and resolved
ClientComputeCall(c, specification0, subset0, tag, priority) ==
    /\ cc[c].pc = "idle"
    /\ ncalls < MaxCalls
    /\ ncalls' = ncalls + 1
    /\ IF ~HasSpecification(Lower(specification0))
       THEN cc' = [cc EXCEPT ![c] = IdleClient(cc[c].data)]
       ELSE cc' = [cc EXCEPT ![c] =
                     [pc |-> "loop", data |-> cc[c].data, i |-> 1,
                      specification |-> Lower(specification0), subset |-> subset0,
                      tag |-> tag, priority |-> priority, submitted |-> 0, ret |-> 0]]
    /\ UNCHANGED <<services, saved, notConcurrent>>

\* The loop reaches the next record it does not skip and submits its service
ClientComputeSubmit(c) ==
    /\ cc[c].pc = "loop"
    /\ LET me  == cc[c]
           i   == NextToSubmit(me.i, me.data.records, me.specification, me.subset)
       IN  /\ i <= Len(ItemOrder)
           /\ LET key     == ItemOrder[i]
                  rec     == me.data.records[key]
                  service == TorsionDriveInput(rec, get_specification(me.specification))
                  id      == add_service_id(services)
              IN  /\ services' = add_service(services, service, me.tag, me.priority)
                  /\ cc' = [cc EXCEPT ![c] =
                        [me EXCEPT !.data.records[key] = SetObjectMap(rec, me.specification, id),
                                   !.i = i + 1,
                                   !.submitted = me.submitted + 1]]
    /\ UNCHANGED <<saved, ncalls, notConcurrent>>

\* The loop is over: history.add, save() and return
ClientComputeSave(c) ==
    /\ cc[c].pc = "loop"
    /\ LET me == cc[c]
       IN  /\ NextToSubmit(me.i, me.data.records, me.specification, me.subset) > Len(ItemOrder)
           /\ saved' = save(me.data.records, history_add(me.data.history, me.specification))
           /\ cc' = [cc EXCEPT ![c] =
                 [IdleClient([records |-> me.data.records,
                              history |-> history_add(me.data.history, me.specification)])
                    EXCEPT !.ret = me.submitted, !.specification = me.specification]]
    /\ UNCHANGED <<services, ncalls, notConcurrent>>

\* Every client has loaded the collection as it was stored at first
InitConcurrent ==
    cc = [c \in Submitters |-> IdleClient(save([k \in Items |-> NewRecord(k)], {}))]

NextConcurrent ==
    \/ \E c \in Submitters : LoadCollection(c)
    \/ \E c \in Submitters, specification0 \in SpecificationArgs,
          subset0 \in {NoSubset, SomeSubset({"a"})} :
             ClientComputeCall(c, specification0, subset0, None, None)
    \/ \E c \in Submitters : ClientComputeSubmit(c)
    \/ \E c \in Submitters : ClientComputeSave(c)

(***************************************************************************)
(* counts(): the table of optimization or gradient counts, one row per     *)
(* entry and one column per specification.  The TorsionDrive records, the  *)
(* optimization records behind them and self.query belong to classes       *)
(* outside the two files modelled here.                                    *)
(***************************************************************************)
\* An optional argument that is None, one string, or a list (entries, specs)
NoList == [kind |-> "none", list |-> <<>>]

OneName(n) == [kind |-> "str", list |-> <<n>>]

SomeList(l) == [kind |-> "list", list |-> l]

\* `if isinstance(x, str): x = [x]`
AsList(arg) == IF arg.kind = "str" THEN SomeList(arg.list) ELSE arg

Range(seq) == {seq[i] : i \in 1..Len(seq)}

\* The optimization records on the server, by id: each has a trajectory
Optimizations ==
    <<[trajectory |-> <<"r1", "r2">>],
      [trajectory |-> <<"r3", "r4", "r5">>],
      [trajectory |-> <<"r6">>]>>

\* td.optimization_history: Dict[str, List[id]], in the order of its keys; it
\* may be missing from the record
NoHistory == [given |-> FALSE, stages |-> <<>>]

SomeHistory(stages) == [given |-> TRUE, stages |-> stages]

\* The TorsionDrive records a cell of self.df may hold
TDRunning ==
    [status |-> "RUNNING",
     optimization_history |-> SomeHistory(<<[key |-> "[0]", ids |-> <<1>>]>>)]

TDComplete ==
    [status |-> "COMPLETE",
     optimization_history |->
        SomeHistory(<<[key |-> "[0]", ids |-> <<1, 2>>], [key |-> "[90]", ids |-> <<3>>]>>)]

TDCompleteEmpty == [status |-> "COMPLETE", optimization_history |-> SomeHistory(<<>>)]

TDCompleteNoHistory == [status |-> "COMPLETE", optimization_history |-> NoHistory]

TorsionDriveRecords == {TDRunning, TDComplete, TDCompleteEmpty, TDCompleteNoHistory}

\* td.get_history(): the optimization records of every key
get_history(td) ==
    [k \in 1..Len(td.optimization_history.stages) |->
        [key |-> td.optimization_history.stages[k].key,
         optimizations |->
            [j \in 1..Len(td.optimization_history.stages[k].ids) |->
                Optimizations[td.optimization_history.stages[k].ids[j]]]]]

\* What a count function gives for one cell: None, a number, or an exception
Null == [kind |-> "null", n |-> 0]

Count(n) == [kind |-> "int", n |-> n]

Raises == [kind |-> "raise", n |-> 0]

\* `for opt in optimizations: total_grads += len(opt.trajectory)`
RECURSIVE TotalGradsOfStage(_, _)
TotalGradsOfStage(optimizations, n) ==
    IF n = 0 THEN 0
    ELSE TotalGradsOfStage(optimizations, n - 1) + Len(optimizations[n].trajectory)

\* `for key, optimizations in td.get_history().items(): ...`
RECURSIVE TotalGrads(_, _)
TotalGrads(hist, n) ==
    IF n = 0 THEN 0
    ELSE TotalGrads(hist, n - 1)
         + TotalGradsOfStage(hist[n].optimizations, Len(hist[n].optimizations))

\* count_gradient_evals(td)
count_gradient_evals(td) ==
    IF td.status # "COMPLETE" THEN Null
    ELSE IF ~td.optimization_history.given THEN Raises
    ELSE Count(TotalGrads(get_history(td), Len(get_history(td))))

\* `sum(len(v) for v in td.optimization_history.values())`
RECURSIVE SumLen(_, _)
SumLen(stages, n) ==
    IF n = 0 THEN 0 ELSE SumLen(stages, n - 1) + Len(stages[n].ids)

count_optimizations_Stages(td) ==
    IF td.status # "COMPLETE" THEN Null
    ELSE IF ~td.optimization_history.given THEN Raises
    ELSE Count(Len(td.optimization_history.stages))

\* count_optimizations(td)
count_optimizations(td) ==
    IF td.status # "COMPLETE" THEN Null
    ELSE IF ~td.optimization_history.given THEN Raises
    ELSE Count(SumLen(td.optimization_history.stages,
                      Len(td.optimization_history.stages)))

\* self.query(spec): the column of the specification is in self.df afterwards
query(columns, spec) ==
    IF spec \in Range(columns) THEN columns ELSE Append(columns, spec)

\* `for spec in specs: self.query(spec)`
RECURSIVE QueryAll(_, _, _)
QueryAll(columns, cols, n) ==
    IF n = 0 THEN columns ELSE query(QueryAll(columns, cols, n - 1), cols[n])

\* A table: the row labels, the column labels and the cells
Table(index, columns, cells) == [index |-> index, columns |-> columns, cells |-> cells]

EmptyTable == Table(<<>>, <<>>, [p \in {} |-> Null])

IsNullRow(table, e) == \A c \in Range(table.columns) : table.cells[<<e, c>>].kind = "null"

dropna_Any(table) ==
    LET keep(e) == \A c \in Range(table.columns) : table.cells[<<e, c>>].kind # "null"
    IN  Table(SelectSeq(table.index, keep), table.columns,
              [p \in {q \in DOMAIN table.cells : keep(q[1])} |-> table.cells[p]])

\* ret.dropna(inplace=True, how="all")
dropna(table) ==
    LET keep(e) == ~IsNullRow(table, e)
    IN  Table(SelectSeq(table.index, keep), table.columns,
              [p \in {q \in DOMAIN table.cells : keep(q[1])} |-> table.cells[p]])

\* counts(entries, specs, count_gradients) on the records tds with the columns
\* `columns` in self.df: the columns afterwards, whether an exception left the
\* call, and the table returned
counts(tds, columns, entries0, specs0, count_gradients) ==
    LET entries == AsList(entries0)
        given   == AsList(specs0)
        after   == IF given.kind = "none" THEN columns
                   ELSE QueryAll(columns, given.list, Len(given.list))
        cols    == IF given.kind = "none" THEN columns ELSE given.list
        \* `if entries: data = data[entries]`
        index   == IF entries.kind # "none" /\ entries.list # <<>>
                   THEN entries.list ELSE ItemOrder
        cell(e, c) == IF count_gradients THEN count_gradient_evals(tds[e][c])
                      ELSE count_optimizations(tds[e][c])
        raised  == \E c \in Range(cols) : \E e \in Range(index) : cell(e, c).kind = "raise"
        \* pd.DataFrame(ret).transpose(): no column, no row
        frame   == Table(IF cols = <<>> THEN <<>> ELSE index, cols,
                         [p \in Range(index) \X Range(cols) |-> cell(p[1], p[2])])
    IN  [df_columns |-> after,
         raised     |-> raised,
         ret        |-> IF raised THEN EmptyTable ELSE dropna(frame)]

\* The arguments counts() is called with
EntriesArgs == {NoList, OneName("a"), SomeList(<<>>), SomeList(<<"c", "a">>)}

SpecsArgs == {NoList, OneName(<<"t">>), SomeList(<< <<"s">>, <<"t">> >>)}

\* counts(entries, specs, count_gradients)
Counts(entries0, specs0, count_gradients) ==
    /\ ncounts < MaxCounts
    /\ ncounts' = ncounts + 1
    /\ LET r == counts(torsiondrives, df_columns, entries0, specs0, count_gradients)
       IN  /\ df_columns' = r.df_columns
           /\ ct' = [args   |-> [entries |-> entries0, specs |-> specs0,
                                 count_gradients |-> count_gradients],
                     called |-> TRUE,
                     pre    |-> df_columns,
                     raised |-> r.raised,
                     ret    |-> r.ret]
    /\ UNCHANGED <<torsiondrives, notCounts>>

\* No counts() call yet
NoCounts ==
    [args   |-> [entries |-> NoList, specs |-> NoList, count_gradients |-> FALSE],
     called |-> FALSE,
     pre    |-> <<>>,
     raised |-> FALSE,
     ret    |-> EmptyTable]

\* The records before any service has completed
NoTorsionDrives == [e \in Items |-> [c \in DOMAIN specs |-> TDRunning]]

\* The records the server may hold for the services of the collection: any
\* of the four kinds for "a" and "b", a running or a complete one for "c"
TorsionDriveTables ==
    {tds \in [Items -> [DOMAIN specs -> TorsionDriveRecords]] :
        \A c \in DOMAIN specs : tds["c"][c] \in {TDRunning, TDComplete}}

\* Every service of the collection has a record, and the specifications may
\* have been queried already
InitCounts ==
    /\ torsiondrives \in TorsionDriveTables
    /\ df_columns \in {<<>>, << <<"s">>, <<"t">> >>}
    /\ ct = NoCounts
    /\ ncounts = 0

NextCounts ==
    \E entries0 \in EntriesArgs, specs0 \in SpecsArgs, count_gradients \in BOOLEAN :
        Counts(entries0, specs0, count_gradients)

(***************************************************************************)
(* The task queue.  The base socket only declares queue_submit and         *)
(* queue_get_next; their behaviour is the task queue contract: submit      *)
(* inserts WAITING items, get_next claims up to `limit` WAITING items that *)
(* match the tag, oldest first, one atomic find-and-claim per item.        *)
(***************************************************************************)
Workers == 1..MaxWorkers

TaskTags == {None, "gpu"}

SubAppend(seq) == SubSeq(seq, 1, Len(seq) - 1)

\* queue_submit(data, tag): n new items, WAITING, with the tag given
queue_submit(queue, n, tag) ==
    queue \o [i \in 1..n |-> [id |-> Len(queue) + i, status |-> "WAITING", tag |-> tag,
                               error |-> None]]

\* The queue after one queue_submit of a single item per tag of tags, in order
RECURSIVE SubmittedQueue(_)
SubmittedQueue(tags) ==
    IF tags = <<>> THEN <<>>
    ELSE queue_submit(SubmittedQueue(SubAppend(tags)), 1, tags[Len(tags)])

Claimable_AnyStatus(task, tag) == tag = None \/ task.tag = tag

\* The filter of get_next: a WAITING item with the tag asked for (any tag when
\* none is asked for)
Claimable(task, tag) ==
    /\ task.status = "WAITING"
    /\ (tag = None \/ task.tag = tag)

\* The oldest claimable item's position, 0 when there is none
FindNext(queue, tag) ==
    LET found == {i \in 1..Len(queue) : Claimable(queue[i], tag)}
    IN  IF found = {} THEN 0
        ELSE CHOOSE i \in found : \A j \in found : i <= j

\* queue_get_next(limit, tag) is called by w
GetNextCall(w, limit, tag) ==
    /\ gn[w].pc = "idle"
    /\ Len(polls) < MaxPolls
    /\ polls' = Append(polls, [limit |-> limit, tag |-> tag, items |-> <<>>])
    /\ gn' = [gn EXCEPT ![w] = [pc |-> "claiming", poll |-> Len(polls) + 1]]
    /\ UNCHANGED <<task_queue, notQueue>>

\* One atomic find-and-claim: WAITING -> RUNNING
GetNextClaim(w) ==
    /\ gn[w].pc = "claiming"
    /\ LET p == gn[w].poll
           i == FindNext(task_queue, polls[p].tag)
       IN  /\ Len(polls[p].items) < polls[p].limit
           /\ i # 0
           /\ task_queue' = [task_queue EXCEPT ![i].status = "RUNNING"]
           /\ polls' = [polls EXCEPT ![p].items = Append(@, task_queue[i].id)]
    /\ UNCHANGED <<gn, notQueue>>

\* Nothing more to claim, or the limit is reached: the call returns its items
GetNextReturn(w) ==
    /\ gn[w].pc = "claiming"
    /\ LET p == gn[w].poll
       IN  \/ Len(polls[p].items) >= polls[p].limit
           \/ FindNext(task_queue, polls[p].tag) = 0
    /\ gn' = [gn EXCEPT ![w] = [pc |-> "idle", poll |-> 0]]
    /\ UNCHANGED <<task_queue, polls, notQueue>>

\* The lists of ids mark_error and reset_status are called with; an id the
\* queue does not hold is passed over
IdsArgs == (SUBSET (1..MaxTasks)) \ {{}}

\* queue_mark_error(data): the listed items get status ERROR and the message
queue_mark_error(queue, ids, msg) ==
    [i \in 1..Len(queue) |->
        IF queue[i].id \in ids
        THEN [queue[i] EXCEPT !.status = "ERROR", !.error = msg]
        ELSE queue[i]]

queue_reset_status_ErrorStays(queue, ids) ==
    [i \in 1..Len(queue) |->
        IF queue[i].id \in ids /\ queue[i].status # "ERROR"
        THEN [queue[i] EXCEPT !.status = "WAITING"]
        ELSE queue[i]]

\* queue_reset_status(data): the listed items are WAITING again, whatever
\* their status was
queue_reset_status(queue, ids) ==
    [i \in 1..Len(queue) |->
        IF queue[i].id \in ids
        THEN [queue[i] EXCEPT !.status = "WAITING"]
        ELSE queue[i]]

\* queue_mark_error(ids, msgs)
MarkError(ids) ==
    /\ task_queue' = queue_mark_error(task_queue, ids, "error message")
    /\ UNCHANGED <<gn, polls, notQueue>>

\* queue_reset_status(ids)
ResetStatus(ids) ==
    /\ task_queue' = queue_reset_status(task_queue, ids)
    /\ UNCHANGED <<gn, polls, notQueue>>

\* The queue holds N items submitted before any get_next call, all WAITING
InitQueue ==
    /\ \E n \in 0..MaxTasks : \E tags \in [1..n -> TaskTags] :
           task_queue = SubmittedQueue(tags)
    /\ gn = [w \in Workers |-> [pc |-> "idle", poll |-> 0]]
    /\ polls = <<>>

NextQueue ==
    \/ \E w    \in Workers, limit \in 1..2, tag \in TaskTags : GetNextCall(w, limit, tag)
    \/ \E w \in Workers : GetNextClaim(w)
    \/ \E w \in Workers : GetNextReturn(w)

\* The caller that polls while items fail and are requeued
Pollers == {1}

\* The queue with its items failing and being requeued
NextRequeue ==
    \/ \E w \in Pollers, limit \in 1..2, tag \in TaskTags : GetNextCall(w, limit, tag)
    \/ \E w \in Pollers : GetNextClaim(w)
    \/ \E w \in Pollers : GetNextReturn(w)
    \/ \E ids \in IdsArgs : MarkError(ids)
    \/ \E ids \in IdsArgs : ResetStatus(ids)

(***************************************************************************)
(* Queue managers: manager_update is one update_one(..., upsert=True) on   *)
(* the queue_managers table, which the store applies atomically.           *)
(***************************************************************************)
Clients == 1..MaxClients

ManagerNames == {"w1", "w2"}

Counters == {"submitted", "completed", "returned", "failures"}

Deltas(s, c, f, r) == [submitted |-> s, completed |-> c, failures |-> f, returned |-> r]

\* manager_update(name, tag=None, submitted=0, completed=0, failures=0, returned=0)
DeltaArgs == {Deltas(0, 0, 0, 0), Deltas(1, 0, 0, 0), Deltas(2, 1, 0, 1), Deltas(-1, 0, 2, 0)}

MatchIndex_Never(table, name) == 0

\* The document the filter {"name": name} selects: the first one with that
\* name, 0 when there is none
MatchIndex(table, name) ==
    LET found == {i \in 1..Len(table) : table[i].name = name}
    IN  IF found = {} THEN 0
        ELSE CHOOSE i \in found : \A j \in found : i <= j

Inc_Overwrite(old, delta) == delta

\* "$inc": the field grows by the value given
Inc(old, delta) == old + delta

update_one_upsert_SetTag(table, name, tag, dt, d) ==
    LET i == MatchIndex(table, name)
    IN  IF i # 0
        THEN [table EXCEPT ![i] =
                [@ EXCEPT !.tag        = tag,
                          !.modifed_on = dt,
                          !.submitted  = Inc(@, d.submitted),
                          !.completed  = Inc(@, d.completed),
                          !.returned   = Inc(@, d.returned),
                          !.failures   = Inc(@, d.failures)]]
        ELSE Append(table,
                [name       |-> name,
                 created_on |-> dt,
                 tag        |-> tag,
                 modifed_on |-> dt,
                 submitted  |-> Inc(0, d.submitted),
                 completed  |-> Inc(0, d.completed),
                 returned   |-> Inc(0, d.returned),
                 failures   |-> Inc(0, d.failures)])

\* update_one({"name": name}, {"$setOnInsert": ..., "$set": ..., "$inc": ...},
\* upsert=True): the table after it
update_one_upsert(table, name, tag, dt, d) ==
    LET i == MatchIndex(table, name)
    IN  IF i # 0
        THEN [table EXCEPT ![i] =
                [@ EXCEPT !.modifed_on = dt,
                          !.submitted  = Inc(@, d.submitted),
                          !.completed  = Inc(@, d.completed),
                          !.returned   = Inc(@, d.returned),
                          !.failures   = Inc(@, d.failures)]]
        ELSE Append(table,
                [name       |-> name,
                 created_on |-> dt,
                 tag        |-> tag,
                 modifed_on |-> dt,
                 submitted  |-> Inc(0, d.submitted),
                 completed  |-> Inc(0, d.completed),
                 returned   |-> Inc(0, d.returned),
                 failures   |-> Inc(0, d.failures)])

\* r.matched_count: the documents the filter matched (an upserted one is not
\* counted as matched)
matched_count(table, name) == IF MatchIndex(table, name) # 0 THEN 1 ELSE 0

\* manager_update is entered: dt = datetime.datetime.utcnow()
ManagerUpdateCall(c, name, tag, d) ==
    /\ mu[c].pc = "idle"
    /\ Len(beats) < MaxBeats
    /\ beats' = Append(beats, [name |-> name, tag |-> tag, deltas |-> d, dt |-> clock,
                               done |-> FALSE, ret |-> FALSE])
    /\ clock' = clock + 1
    /\ mu' = [mu EXCEPT ![c] = [pc |-> "update", beat |-> Len(beats) + 1]]
    /\ UNCHANGED <<queue_managers, notManager>>

\* r = update_one(...); return r.matched_count == 1
ManagerUpdateWrite(c) ==
    /\ mu[c].pc = "update"
    /\ LET b == beats[mu[c].beat]
       IN  /\ queue_managers' =
                 update_one_upsert(queue_managers, b.name, b.tag, b.dt, b.deltas)
           /\ beats' = [beats EXCEPT ![mu[c].beat] =
                 [@ EXCEPT !.done = TRUE,
                           !.ret  = (matched_count(queue_managers, b.name) = 1)]]
    /\ mu' = [mu EXCEPT ![c] = [pc |-> "idle", beat |-> 0]]
    /\ UNCHANGED <<clock, notManager>>

InitManager ==
    /\ queue_managers = <<>>
    /\ clock = 1
    /\ mu = [c \in Clients |-> [pc |-> "idle", beat |-> 0]]
    /\ beats = <<>>

NextManager ==
    \/ \E c \in Clients, name \in ManagerNames, tag \in TaskTags, d \in DeltaArgs :
          ManagerUpdateCall(c, name, tag, d)
    \/ \E c \in Clients : ManagerUpdateWrite(c)

(***************************************************************************)
(* Hooks: handle_hooks turns every hook into one UpdateOne on the          *)
(* service_queue table and sends them in one unordered bulk_write.         *)
(***************************************************************************)
ServiceIds == {1, 2}

\* A service document the hooks address
NewService(id) ==
    [id |-> id, remaining_jobs |-> 2, nerrors |-> 0, priority |-> 1, tasks |-> <<>>]

\* The update commands of a hook: triples (operation, field, value)
HookCommands ==
    {<<"inc", "remaining_jobs", -1>>, <<"inc", "nerrors", 1>>,
     <<"set", "priority", 2>>, <<"push", "tasks", 7>>}

HookUpdates ==
    {<<c>> : c \in HookCommands} \cup {<<c, d>> : c \in HookCommands, d \in HookCommands}

\* hook = {"document": ("service_queue", id), "updates": [...]}
Hooks ==
    {[document |-> <<"service_queue", id>>, updates |-> u] :
        id \in ServiceIds, u \in HookUpdates}

\* The `hooks` argument: a list of hook lists
HooksArgs ==
    {<<>>, << <<>> >>}
        \cup {<< <<h>> >> : h \in Hooks}
        \cup {<< <<h, g>> >> : h \in Hooks, g \in Hooks}
        \cup {<< <<h>>, <<g>> >> : h \in Hooks, g \in Hooks}

\* `commands = {}; for com in hook["updates"]: commands["$" + com[0]] = {com[1]: com[2]}`
\* after the first n commands: a later command of the same operation replaces
\* the earlier one
RECURSIVE BuildCommands(_, _)
BuildCommands(updates, n) ==
    IF n = 0 THEN <<>>
    ELSE LET c   == BuildCommands(updates, n - 1)
             com == updates[n]
             key == "$" \o com[1]
         IN  [k \in DOMAIN c \cup {key} |->
                IF k = key THEN [field |-> com[2], value |-> com[3]] ELSE c[k]]

\* pymongo.UpdateOne({"_id": ObjectId(hook["document"][1])}, commands)
UpdateOne(hook) ==
    [id |-> hook.document[2], commands |-> BuildCommands(hook.updates, Len(hook.updates))]

\* The hooks of a hook list, one UpdateOne each
HookListCommands(hook_list) == [k \in 1..Len(hook_list) |-> UpdateOne(hook_list[k])]

\* `for hook_list in hooks: for hook in hook_list: ... bulk_commands.append(upd)`
RECURSIVE BulkCommands(_, _)
BulkCommands(hooks, n) ==
    IF n = 0 THEN <<>>
    ELSE BulkCommands(hooks, n - 1) \o HookListCommands(hooks[n])

\* One update operator applied to a document
ApplyOperator(doc, op, field, value) ==
    CASE op = "$inc"  -> [doc EXCEPT ![field] = @ + value]
      [] op = "$set"  -> [doc EXCEPT ![field] = value]
      [] op = "$push" -> [doc EXCEPT ![field] = Append(@, value)]

\* The operators of one update document applied to a document (they address
\* different fields)
RECURSIVE ApplyCommands(_, _, _)
ApplyCommands(doc, commands, ops) ==
    IF ops = {} THEN doc
    ELSE LET op == CHOOSE o \in ops : TRUE
         IN  ApplyCommands(ApplyOperator(doc, op, commands[op].field, commands[op].value),
                           commands, ops \ {op})

\* The table after one UpdateOne: the document with the _id, if there is one,
\* is updated atomically
ApplyUpdateOne(table, upd) ==
    IF upd.id \in DOMAIN table
    THEN [table EXCEPT ![upd.id] = ApplyCommands(@, upd.commands, DOMAIN upd.commands)]
    ELSE table

\* handle_hooks(hooks) up to the bulk_write call; returns at once when there
\* is no command
HandleHooks(hooks) ==
    /\ hk.pc = "idle"
    /\ nhooks < MaxHookCalls
    /\ nhooks' = nhooks + 1
    /\ LET bulk_commands == BulkCommands(hooks, Len(hooks))
       IN  hk' = [pc      |-> IF Len(bulk_commands) = 0 THEN "idle" ELSE "bulk_write",
                  hooks   |-> hooks,
                  bulk    |-> bulk_commands,
                  pending |-> 1..Len(bulk_commands),
                  pre     |-> service_queue]
    /\ UNCHANGED <<service_queue, notHooks>>

\* bulk_write(bulk_commands, ordered=False): the store applies the operations
\* one at a time, in an order of its choice; the call returns after the last
BulkWriteOne(k) ==
    /\ hk.pc = "bulk_write"
    /\ k \in hk.pending
    /\ service_queue' = ApplyUpdateOne(service_queue, hk.bulk[k])
    /\ hk' = [hk EXCEPT !.pending = @ \ {k},
                        !.pc = IF hk.pending = {k} THEN "idle" ELSE "bulk_write"]
    /\ UNCHANGED <<nhooks, notHooks>>

NoHooks == [pc |-> "idle", hooks |-> <<>>, bulk |-> <<>>, pending |-> {},
            pre |-> [id \in ServiceIds |-> NewService(id)]]

\* The service_queue table holds the services the hooks are about
InitHooks ==
    /\ service_queue = [id \in ServiceIds |-> NewService(id)]
    /\ hk = NoHooks
    /\ nhooks = 0

NextHooks ==
    \/ \E hooks \in HooksArgs : HandleHooks(hooks)
    \/ \E k \in hk.pending : BulkWriteOne(k)

(***************************************************************************)
(* Users                                                                   *)
(***************************************************************************)
Usernames == {"george", "anyone"}

Passwords == {"shortpw", "anything"}

\* bcrypt.gensalt(6) draws a random salt
Salts == {"salt1", "salt2"}

\* permissions=None, or a list of permissions
NoPermissions == [given |-> FALSE, names |-> {}]

SomePermissions(S) == [given |-> TRUE, names |-> S]

PermissionsArgs == {NoPermissions, SomePermissions({"read", "write"}), SomePermissions({"admin"})}

\* the permission verify_user is asked for
PermissionArgs == {"read", "write", "compute", "queue", "admin", "READ"}

\* permission.lower()
LowerPermission(permission) ==
    CASE permission = "READ"  -> "read"
      [] permission = "WRITE" -> "write"
      [] permission = "ADMIN" -> "admin"
      [] OTHER                -> permission

\* bcrypt.hashpw(password, salt): the hash carries its salt
hashpw(password, salt) == [salt |-> salt, digest |-> <<salt, password>>]

\* bcrypt.checkpw(password, hashed): hash again with the salt of the hash
checkpw(password, hashed) == hashpw(password, hashed.salt) = hashed

\* find_one({"username": username}): position of the first match, 0 for None
find_one(table, username) ==
    LET found == {i \in 1..Len(table) : table[i].username = username}
    IN  IF found = {} THEN 0
        ELSE CHOOSE i \in found : \A j \in found : i <= j

insert_one_NoIndex(table, doc) == [table |-> Append(table, doc), raised |-> FALSE]

\* insert_one(doc) on the users table, whose usernames are unique: a second
\* document with a username raises DuplicateKeyError
insert_one(table, doc) ==
    IF find_one(table, doc.username) # 0
    THEN [table |-> table, raised |-> TRUE]
    ELSE [table |-> Append(table, doc), raised |-> FALSE]

\* delete_one({"username": username}): the first match is removed
delete_one(table, username) ==
    LET i == find_one(table, username)
    IN  IF i = 0 THEN [table |-> table, deleted_count |-> 0]
        ELSE [table |-> SubSeq(table, 1, i - 1) \o SubSeq(table, i + 1, Len(table)),
              deleted_count |-> 1]

DefaultPermissions_Admin(permissions0) ==
    IF ~permissions0.given THEN {"admin"} ELSE permissions0.names

\* `if permissions is None: permissions = ["read"]`
DefaultPermissions(permissions0) ==
    IF ~permissions0.given THEN {"read"} ELSE permissions0.names

\* add_user(username, password, permissions=None)
AddUser(username, password, permissions0, salt) ==
    /\ nuserops < MaxUserOps
    /\ nuserops' = nuserops + 1
    /\ LET permissions == DefaultPermissions(permissions0)
           hashed == hashpw(password, salt)
           r == insert_one(users, [username |-> username, password |-> hashed,
                                   permissions |-> permissions])
       IN  /\ users' = r.table
           /\ ul' = [op |-> "add_user", username |-> username, password |-> password,
                     permission |-> None, permissions |-> permissions,
                     ok |-> ~r.raised, msg |-> None, reads |-> 0, pre |-> users]
    /\ UNCHANGED <<bypass_security, notUsers>>

verify_user_NoBypass(bypass, table, username, password, permission) ==
    LET i == find_one(table, username)
    IN  IF i = 0 THEN [ok |-> FALSE, msg |-> "User not found.", reads |-> 1]
        ELSE IF ~checkpw(password, table[i].password)
        THEN [ok |-> FALSE, msg |-> "Incorrect password.", reads |-> 1]
        ELSE IF LowerPermission(permission) \notin table[i].permissions
                /\ "admin" \notin table[i].permissions
        THEN [ok |-> FALSE, msg |-> "User has insufficient permissions.", reads |-> 1]
        ELSE [ok |-> TRUE, msg |-> "Success", reads |-> 1]

verify_user_PermissionFirst(bypass, table, username, password, permission) ==
    IF bypass THEN [ok |-> TRUE, msg |-> "Success", reads |-> 0]
    ELSE LET i == find_one(table, username)
         IN  IF i = 0 THEN [ok |-> FALSE, msg |-> "User not found.", reads |-> 1]
             ELSE IF LowerPermission(permission) \notin table[i].permissions
                     /\ "admin" \notin table[i].permissions
             THEN [ok |-> FALSE, msg |-> "User has insufficient permissions.", reads |-> 1]
             ELSE IF ~checkpw(password, table[i].password)
             THEN [ok |-> FALSE, msg |-> "Incorrect password.", reads |-> 1]
             ELSE [ok |-> TRUE, msg |-> "Success", reads |-> 1]

verify_user_NoAdmin(bypass, table, username, password, permission) ==
    IF bypass THEN [ok |-> TRUE, msg |-> "Success", reads |-> 0]
    ELSE LET i == find_one(table, username)
         IN  IF i = 0 THEN [ok |-> FALSE, msg |-> "User not found.", reads |-> 1]
             ELSE IF ~checkpw(password, table[i].password)
             THEN [ok |-> FALSE, msg |-> "Incorrect password.", reads |-> 1]
             ELSE IF LowerPermission(permission) \notin table[i].permissions
             THEN [ok |-> FALSE, msg |-> "User has insufficient permissions.", reads |-> 1]
             ELSE [ok |-> TRUE, msg |-> "Success", reads |-> 1]

\* verify_user(username, password, permission): the pair returned, and how many
\* times the users table was read
verify_user(bypass, table, username, password, permission) ==
    IF bypass THEN [ok |-> TRUE, msg |-> "Success", reads |-> 0]
    ELSE LET i == find_one(table, username)
         IN  IF i = 0 THEN [ok |-> FALSE, msg |-> "User not found.", reads |-> 1]
             ELSE IF ~checkpw(password, table[i].password)
             THEN [ok |-> FALSE, msg |-> "Incorrect password.", reads |-> 1]
             ELSE IF LowerPermission(permission) \notin table[i].permissions
                     /\ "admin" \notin table[i].permissions
             THEN [ok |-> FALSE, msg |-> "User has insufficient permissions.", reads |-> 1]
             ELSE [ok |-> TRUE, msg |-> "Success", reads |-> 1]

VerifyUser(username, password, permission) ==
    /\ nuserops < MaxUserOps
    /\ nuserops' = nuserops + 1
    /\ LET r == verify_user(bypass_security, users, username, password, permission)
       IN  ul' = [op |-> "verify_user", username |-> username, password |-> password,
                  permission |-> permission, permissions |-> {},
                  ok |-> r.ok, msg |-> r.msg, reads |-> r.reads, pre |-> users]
    /\ UNCHANGED <<users, bypass_security, notUsers>>

\* remove_user(username)
RemoveUser(username) ==
    /\ nuserops < MaxUserOps
    /\ nuserops' = nuserops + 1
    /\ LET r == delete_one(users, username)
       IN  /\ users' = r.table
           /\ ul' = [op |-> "remove_user", username |-> username, password |-> None,
                     permission |-> None, permissions |-> {},
                     ok |-> (r.deleted_count = 1), msg |-> None, reads |-> 0, pre |-> users]
    /\ UNCHANGED <<bypass_security, notUsers>>

NoUserCall == [op |-> None, username |-> None, password |-> None, permission |-> None,
               permissions |-> {}, ok |-> FALSE, msg |-> None, reads |-> 0, pre |-> <<>>]

\* bypass_security=False is the default of the constructor
InitUsers ==
    /\ users = <<>>
    /\ ul = NoUserCall
    /\ nuserops = 0

NextUsers ==
    \/ \E username \in Usernames, password \in Passwords,
          permissions \in PermissionsArgs, salt \in Salts :
          AddUser(username, password, permissions, salt)
    \/ \E username \in Usernames, password \in Passwords, permission \in PermissionArgs :
          VerifyUser(username, password, permission)
    \/ \E username \in Usernames : RemoveUser(username)

(***************************************************************************)
(* Specifications                                                          *)
(***************************************************************************)
\* The state after construction: nothing submitted, nothing called, security
\* not bypassed
Init ==
    /\ InitCompute
    /\ InitConcurrent
    /\ InitCounts /\ torsiondrives = NoTorsionDrives /\ df_columns = <<>>
    /\ InitQueue /\ task_queue = <<>>
    /\ InitManager
    /\ InitHooks
    /\ InitUsers /\ bypass_security = FALSE

\* The task queue already holds the submitted items
InitLoadedQueue ==
    InitCompute /\ InitConcurrent /\ InitCounts /\ torsiondrives = NoTorsionDrives /\ df_columns = <<>>
        /\ InitQueue /\ InitManager /\ InitHooks
        /\ InitUsers /\ bypass_security = FALSE

\* The task queue holds one item without a tag and one with a tag
InitRequeue == InitLoadedQueue /\ task_queue = SubmittedQueue(<<None, "gpu">>)

\* The services of the collection have their records on the server
InitQueried ==
    InitCompute /\ InitConcurrent /\ InitCounts /\ InitQueue /\ task_queue = <<>> /\ InitManager
        /\ InitHooks /\ InitUsers /\ bypass_security = FALSE

\* The socket was built with bypass_security either way
InitAnySecurity ==
    InitCompute /\ InitConcurrent /\ InitCounts /\ torsiondrives = NoTorsionDrives /\ df_columns = <<>>
        /\ InitQueue /\ task_queue = <<>> /\ InitManager /\ InitHooks
        /\ InitUsers /\ bypass_security \in BOOLEAN

Next == NextCompute \/ NextConcurrent \/ NextCounts \/ NextQueue \/ NextRequeue \/ NextManager \/ NextHooks \/ NextUsers

Spec == Init /\ [][Next]_vars

SpecCompute == Init /\ [][NextCompute]_vars

SpecConcurrent == Init /\ [][NextConcurrent]_vars

SpecCounts == InitQueried /\ [][NextCounts]_vars

SpecQueue == InitLoadedQueue /\ [][NextQueue]_vars

SpecRequeue == InitRequeue /\ [][NextRequeue]_vars

SpecManager == Init /\ [][NextManager]_vars

SpecHooks == Init /\ [][NextHooks]_vars

SpecUsers == InitAnySecurity /\ [][NextUsers]_vars

(***************************************************************************)
(* Properties of compute()                                                 *)
(***************************************************************************)
\* The services in the store that were built from entry `key` under the
\* specification named n
SubmittedFor(key, n) ==
    {i \in 1..Len(services) :
        services[i].service = TorsionDriveInput(records[key], specs[n])}

\* The entries a call with arguments args may submit from the records recs:
\* no object_map entry under the specification, and inside the subset if given
Eligible(recs, args) ==
    {key \in Items :
        /\ Lower(args.specification) \notin DOMAIN recs[key].object_map
        /\ (args.subset.given => recs[key].name \in args.subset.names)}

Returned(call) == call.raised = None

C1_AtMostOnePerPair ==
    \A key \in Items, n \in DOMAIN specs : Cardinality(SubmittedFor(key, n)) <= 1

C1_ObjectMapKept ==
    \A key \in Items : \A k \in DOMAIN records[key].object_map :
        /\ k \in DOMAIN records'[key].object_map
        /\ records'[key].object_map[k] = records[key].object_map[k]

\* C1: over any sequence of compute() calls on the collection, no (entry,
\* specification) pair ever has more than one service in the service store, and
\* no step overwrites or removes an object_map entry that was written.
C1_OneServicePerPair == [](C1_AtMostOnePerPair) /\ [][C1_ObjectMapKept]_vars

\* A second call asked again for a specification whose three entries the first
\* call had submitted
C1_Witness ==
    /\ ncalls = 2
    /\ Returned(prev) /\ prev.ret = 3
    /\ Returned(last) /\ ~last.args.subset.given
    /\ Lower(last.args.specification) = Lower(prev.args.specification)
    /\ Len(services) = 3

\* C2: when compute() is called twice in a row with the same arguments and both
\* calls return, the first returns the number of eligible entries, the second
\* returns 0 and adds nothing to the service store, and each entry that was
\* eligible has exactly one service.
C2_SecondCallSubmitsNothing ==
    (ncalls >= 2 /\ prev.args = last.args /\ Returned(prev) /\ Returned(last)) =>
        /\ prev.ret = Cardinality(Eligible(prev.pre.records, prev.args))
        /\ last.pre.nservices = prev.pre.nservices + prev.ret
        /\ last.ret = 0
        /\ Len(services) = last.pre.nservices
        /\ \A key \in Eligible(prev.pre.records, prev.args) :
               Cardinality(SubmittedFor(key, Lower(prev.args.specification))) = 1

\* The same call twice; the first one submitted entries
C2_Witness ==
    /\ ncalls = 2
    /\ prev.args = last.args
    /\ Returned(prev) /\ prev.ret >= 2
    /\ Returned(last) /\ last.ret = 0

\* C3: a call with a subset given leaves every entry outside the subset as it
\* was: its object_map is unchanged and no service added by the call was built
\* from it; with the empty subset the call adds no service at all.
C3_SubsetRestricts ==
    (last.raised # "NoCall" /\ last.args.subset.given) =>
        /\ \A key \in Items :
              records[key].name \notin last.args.subset.names =>
                /\ records[key].object_map = last.pre.records[key].object_map
                /\ \A i \in (last.pre.nservices + 1)..Len(services) :
                      services[i].service.initial_molecule
                          # records[key].initial_molecules
        /\ (last.args.subset.names = {} => Len(services) = last.pre.nservices)

\* compute(spec, subset={"a"}) submitted for "a" alone
C3_Witness ==
    /\ last.args.subset = SomeSubset({"a"})
    /\ Returned(last) /\ last.ret = 1
    /\ Len(services) = last.pre.nservices + 1
    /\ DOMAIN records["a"].object_map # {}
    /\ DOMAIN records["b"].object_map = {}

\* C14: a compute() call whose specification name, lower-cased, is not a
\* specification of the collection fails with the not-found error and changes
\* nothing: no service is added, no object_map is touched, history is as it
\* was and the collection is not saved.
C14_UnknownSpecificationChangesNothing ==
    (last.raised # "NoCall" /\ Lower(last.args.specification) \notin DOMAIN specs) =>
        /\ last.raised = "KeyError"
        /\ Len(services) = last.pre.nservices
        /\ records = last.pre.records
        /\ history = last.pre.history
        /\ saved = last.pre.saved

\* compute("x") failed on a collection an earlier call had submitted entries of
C14_Witness ==
    /\ ncalls = 2
    /\ Returned(prev) /\ prev.ret >= 1
    /\ last.args.specification = <<"x">>
    /\ last.raised = "KeyError"
    /\ Len(services) >= 1
    /\ history # {}

\* C15: a compute() call that returns gives back the number of entries that had
\* no object_map entry for the specification before the call and are inside
\* the subset if one was given; after it each of those entries has under the
\* specification the id the service store returned for the service built from
\* that entry, its other object_map entries are kept, and the object_map of
\* every other entry is as it was.
C15_ReturnCountsSubmitted ==
    Returned(last) =>
        LET E == Eligible(last.pre.records, last.args)
            k == Lower(last.args.specification)
        IN  /\ last.ret = Cardinality(E)
            /\ Len(services) = last.pre.nservices + last.ret
            /\ \A key \in E :
                  /\ k \in DOMAIN records[key].object_map
                  /\ records[key].object_map[k] \in (last.pre.nservices + 1)..Len(services)
                  /\ services[records[key].object_map[k]].service
                        = TorsionDriveInput(last.pre.records[key], specs[k])
                  /\ \A j \in DOMAIN last.pre.records[key].object_map :
                        /\ j \in DOMAIN records[key].object_map
                        /\ records[key].object_map[j] = last.pre.records[key].object_map[j]
            /\ \A key \in Items \ E :
                  records[key].object_map = last.pre.records[key].object_map

\* The second call submitted the two entries of its subset under "t"; "a" kept
\* what the first call had written under "s"
C15_Witness ==
    /\ ncalls = 2
    /\ Returned(prev) /\ prev.ret = 3
    /\ Returned(last) /\ last.ret = 2
    /\ last.args.subset = SomeSubset({"b", "c"})
    /\ DOMAIN records["a"].object_map = {<<"s">>}
    /\ DOMAIN records["b"].object_map = {<<"s">>, <<"t">>}

C20_HistoryAfterCall ==
    /\ Returned(last) =>
          /\ Lower(last.args.specification) \in history
          /\ history = last.pre.history \cup {Lower(last.args.specification)}
    /\ last.raised = "KeyError" => history = last.pre.history

C20_HistoryGrows == history \subseteq history'

\* C20: after every compute() call that returns, history holds the lower-cased
\* specification name, also when the call submitted nothing; no step removes a
\* name from history, and a call that fails to resolve its specification
\* leaves history as it was.
C20_HistoryRecordsSpecification == [](C20_HistoryAfterCall) /\ [][C20_HistoryGrows]_vars

\* compute("S") submitted nothing and put "s" into history
C20_Witness ==
    /\ Returned(last) /\ last.ret = 0
    /\ last.args.specification = <<"S">>
    /\ <<"s">> \notin last.pre.history
    /\ <<"s">> \in history
    /\ <<"S">> \notin history

\* C23: when a compute() call has ended, by returning or by a storage error
\* of add_service that reached the caller, the persisted collection holds, in
\* the object_map of every entry a service identifier was obtained for, that
\* identifier.
C23_SubmittedIsPersisted ==
    (last.raised = None \/ last.raised = "StorageError") =>
        \A key \in Items : \A k \in DOMAIN records[key].object_map :
            /\ k \in DOMAIN saved.records[key].object_map
            /\ saved.records[key].object_map[k] = records[key].object_map[k]

\* Names without an upper-case letter, and names that differ at most in the
\* case of their letters
IsLowerCase(name) == \A i \in 1..Len(name) : name[i] \notin {"S", "T", "X"}

SameButCase(n, m) ==
    /\ Len(n) = Len(m)
    /\ \A i \in 1..Len(n) :
          n[i] = m[i] \/ {n[i], m[i]} \in {{"S", "s"}, {"T", "t"}, {"X", "x"}}

\* C24: compute() takes specification names that differ only in letter case
\* for one specification: the call fails with not-found only when no
\* specification has the name up to case, a call that returns after one that
\* returned for the same name up to case, both without a subset, submits
\* nothing and every entry keeps its one service, and every object_map key
\* and history entry is lower-case.
C24_CaseInsensitiveName ==
    /\ last.raised # "NoCall" =>
          (last.raised = "KeyError"
              <=> ~\E n \in DOMAIN specs : SameButCase(n, last.args.specification))
    /\ ( /\ ncalls >= 2 /\ Returned(prev) /\ Returned(last)
         /\ SameButCase(prev.args.specification, last.args.specification)
         /\ ~prev.args.subset.given /\ ~last.args.subset.given )
       => /\ last.ret = 0
          /\ Len(services) = last.pre.nservices
          /\ \A key \in Items : \E n \in DOMAIN specs :
                /\ SameButCase(n, last.args.specification)
                /\ Cardinality(SubmittedFor(key, n)) = 1
    /\ \A key \in Items : \A k \in DOMAIN records[key].object_map : IsLowerCase(k)
    /\ \A h \in history : IsLowerCase(h)

\* compute("S") submitted the three entries and compute("s") after it nothing
C24_Witness ==
    /\ ncalls = 2
    /\ prev.args.specification = <<"S">> /\ Returned(prev) /\ prev.ret = 3
    /\ last.args.specification = <<"s">> /\ Returned(last) /\ last.ret = 0
    /\ history = {<<"s">>}
    /\ \A key \in Items : DOMAIN records[key].object_map = {<<"s">>}

(***************************************************************************)
(* Properties of compute() run by several clients                          *)
(***************************************************************************)
\* C22: when compute() calls for one specification are run by clients that
\* each work on their own copy of the stored collection, interleaved in any
\* order, then once the calls are over no (entry, specification) pair has two
\* services in the service store.
C22_NoDoubleSubmission ==
    (\A c \in Submitters : cc[c].pc = "idle") =>
        \A key \in Items, n \in DOMAIN specs : Cardinality(SubmittedFor(key, n)) <= 1

(***************************************************************************)
(* Properties of counts()                                                  *)
(***************************************************************************)
\* The rows and the columns the latest counts() call asked for
RequestedRows ==
    IF ct.args.entries.list # <<>> THEN Range(ct.args.entries.list) ELSE Items

RequestedColumns ==
    IF ct.args.specs.kind = "none" THEN Range(ct.pre) ELSE Range(ct.args.specs.list)

CountsReturned == ct.called /\ ~ct.raised

\* C12: in the table counts() returns, the cell of every (entry, spec) whose
\* record is not COMPLETE is null and the cell of a COMPLETE one is a number;
\* an entry whose cells are null for all the requested specs has no row, and
\* an entry with at least one non-null cell has its row.
C12_NullUnlessComplete ==
    CountsReturned =>
        /\ Range(ct.ret.columns) = RequestedColumns
        /\ Range(ct.ret.index) \subseteq RequestedRows
        /\ \A e \in RequestedRows :
              /\ e \in Range(ct.ret.index) <=>
                    \E c \in RequestedColumns : torsiondrives[e][c].status = "COMPLETE"
              /\ e \in Range(ct.ret.index) =>
                    \A c \in RequestedColumns :
                       (torsiondrives[e][c].status # "COMPLETE")
                           <=> (ct.ret.cells[<<e, c>>] = Null)

\* One call left out the row of "a", whose two records are running, and kept
\* the row of "b" with one null cell and one number
C12_Witness ==
    /\ CountsReturned
    /\ RequestedColumns = {<<"s">>, <<"t">>}
    /\ {"a", "b"} \subseteq RequestedRows
    /\ torsiondrives["a"][<<"s">>].status = "RUNNING"
    /\ torsiondrives["a"][<<"t">>].status = "RUNNING"
    /\ "a" \notin Range(ct.ret.index)
    /\ "b" \in Range(ct.ret.index)
    /\ ct.ret.cells[<<"b", <<"s">>>>] = Null
    /\ ct.ret.cells[<<"b", <<"t">>>>].kind = "int"

\* The optimizations of a record, one per (key, place in the key's list), and
\* the steps of their trajectories
OptimizationSlots(td) ==
    UNION {{<<k, j>> : j \in 1..Len(td.optimization_history.stages[k].ids)} :
              k \in 1..Len(td.optimization_history.stages)}

GradientSlots(td) ==
    UNION {{<<p[1], p[2], g>> :
               g \in 1..Len(Optimizations[
                        td.optimization_history.stages[p[1]].ids[p[2]]].trajectory)} :
              p \in OptimizationSlots(td)}

\* C18: in the table counts() returns, the cell of a COMPLETE record holds,
\* when count_gradients is true, the sum of the trajectory lengths of every
\* optimization under every key of the history, and otherwise the sum over the
\* keys of the number of optimizations listed under the key.
C18_CountOfCompleteRecord ==
    CountsReturned =>
        \A e \in Range(ct.ret.index) : \A c \in Range(ct.ret.columns) :
            torsiondrives[e][c].status = "COMPLETE" =>
                ct.ret.cells[<<e, c>>] =
                    IF ct.args.count_gradients
                    THEN Count(Cardinality(GradientSlots(torsiondrives[e][c])))
                    ELSE Count(Cardinality(OptimizationSlots(torsiondrives[e][c])))

\* Without count_gradients, a record with two keys and three optimizations
\* counted 3, and one with an empty history counted 0
C18_Witness ==
    /\ CountsReturned
    /\ ~ct.args.count_gradients
    /\ \E e \in Range(ct.ret.index) : \E c \in Range(ct.ret.columns) :
          /\ torsiondrives[e][c] = TDComplete
          /\ Len(torsiondrives[e][c].optimization_history.stages) = 2
          /\ ct.ret.cells[<<e, c>>] = Count(3)
    /\ \E e \in Range(ct.ret.index) : \E c \in Range(ct.ret.columns) :
          /\ torsiondrives[e][c] = TDCompleteEmpty
          /\ ct.ret.cells[<<e, c>>] = Count(0)

\* C19: a counts() call that meets a record whose history is missing is not
\* aborted: it returns the table, with null in the cell of that record and
\* the other cells computed.
C19_MissingHistoryGivesNull ==
    ct.called =>
        /\ ~ct.raised
        /\ \A e \in Range(ct.ret.index) : \A c \in Range(ct.ret.columns) :
              /\ ~torsiondrives[e][c].optimization_history.given
                    => ct.ret.cells[<<e, c>>] = Null
              /\ (torsiondrives[e][c].optimization_history.given
                     /\ torsiondrives[e][c].status = "COMPLETE")
                    => ct.ret.cells[<<e, c>>].kind = "int"

(***************************************************************************)
(* Properties of the task queue                                            *)
(***************************************************************************)
ClaimedIn(p) == {polls[p].items[k] : k \in 1..Len(polls[p].items)}

AllClaimed == UNION {ClaimedIn(p) : p \in 1..Len(polls)}

Min(a, b) == IF a <= b THEN a ELSE b

C13_ResetStep ==
    \A ids \in IdsArgs :
        ResetStatus(ids) =>
            /\ Len(task_queue') = Len(task_queue)
            /\ \A i \in 1..Len(task_queue) :
                  IF task_queue[i].id \in ids
                  THEN /\ task_queue'[i].status = "WAITING"
                       /\ FindNext(task_queue', task_queue'[i].tag) \in 1..i
                       /\ FindNext(task_queue', None) \in 1..i
                  ELSE task_queue'[i] = task_queue[i]
            /\ queue_reset_status(task_queue', ids) = task_queue'

\* A get_next call claims the oldest WAITING item that matches its tag, an
\* item that had failed before included, and does not return fewer items than
\* its limit while a matching item is WAITING
C13_GetNextStep ==
    \A w \in Pollers :
        /\ GetNextClaim(w) =>
              \E i \in 1..Len(task_queue) :
                 /\ task_queue[i].status = "WAITING"
                 /\ task_queue'[i].status = "RUNNING"
                 /\ polls'[gn[w].poll].items = Append(polls[gn[w].poll].items, i)
                 /\ \A j \in 1..(i - 1) : ~Claimable(task_queue[j], polls[gn[w].poll].tag)
        /\ (GetNextReturn(w) /\ Len(polls[gn[w].poll].items) < polls[gn[w].poll].limit) =>
              \A i \in 1..Len(task_queue) :
                 ~(/\ task_queue[i].status = "WAITING"
                   /\ polls[gn[w].poll].tag \in {None, task_queue[i].tag})

ManagerDocs(name) == {i \in 1..Len(queue_managers) : queue_managers[i].name = name}

\* The sum of the deltas for counter f passed by the calls among the first n
\* that are for manager `name` and (when written_only) have done their update
RECURSIVE SumDeltas(_, _, _, _)
SumDeltas(n, name, f, written_only) ==
    IF n = 0 THEN 0
    ELSE SumDeltas(n - 1, name, f, written_only)
         + (IF beats[n].name = name /\ (beats[n].done \/ ~written_only)
            THEN beats[n].deltas[f] ELSE 0)

\* C5: every stored counter of a manager equals the sum of the deltas that the
\* heartbeat calls made for that name have passed for it.
C5_CountersAreSums ==
    \A name \in ManagerNames : \A i \in ManagerDocs(name) : \A f \in Counters :
        queue_managers[i][f] = SumDeltas(Len(beats), name, f, TRUE)

\* heartbeat("w1", submitted=1) then heartbeat("w1", submitted=2): 3 is stored
C5_Witness ==
    /\ Len(beats) = 2
    /\ beats[1].name = "w1" /\ beats[1].deltas.submitted = 1 /\ beats[1].done
    /\ beats[2].name = "w1" /\ beats[2].deltas.submitted = 2 /\ beats[2].done
    /\ beats[2].dt > beats[1].dt
    /\ \E i \in ManagerDocs("w1") : queue_managers[i].submitted = 3

\* C6: heartbeats for one name that overlap never produce a second record of
\* that name, a name that has been written has exactly one record, and once all
\* the calls have finished its counters hold the sum of the deltas of them all.
C6_ConcurrentHeartbeats ==
    \A name \in ManagerNames :
        /\ Cardinality(ManagerDocs(name)) <= 1
        /\ (\E n \in 1..Len(beats) : beats[n].name = name /\ beats[n].done)
               => Cardinality(ManagerDocs(name)) = 1
        /\ (\A c \in Clients : mu[c].pc = "idle")
               => \A i \in ManagerDocs(name) : \A f \in Counters :
                      queue_managers[i][f] = SumDeltas(Len(beats), name, f, FALSE)

\* Two heartbeats for a name without a record were in flight together, and
\* both have now written
C6_Witness ==
    /\ Len(beats) = 2
    /\ beats[1].name = beats[2].name
    /\ beats[1].done /\ beats[2].done
    /\ \E i \in ManagerDocs(beats[1].name) :
          /\ queue_managers[i].created_on = beats[2].dt
          /\ queue_managers[i].modifed_on = beats[1].dt
          /\ queue_managers[i].submitted = 3

\* C7: every heartbeat call that has finished returned true.
C7_HeartbeatReturnsTrue ==
    \A n \in 1..Len(beats) : beats[n].done => beats[n].ret

\* The update of a heartbeat call leaves the time of that call in the
\* modified_on field of the manager's record
C16_WriteSetsModifiedOn ==
    \A c \in Clients :
        (mu[c].pc = "update" /\ mu'[c].pc = "idle") =>
            \E i \in 1..Len(queue_managers') :
                /\ queue_managers'[i].name = beats[mu[c].beat].name
                /\ "modified_on" \in DOMAIN queue_managers'[i]
                /\ queue_managers'[i]["modified_on"] = beats[mu[c].beat].dt

\* C16: after every heartbeat call the modified_on field of the manager's
\* record holds the time of that call, on the call that creates the record and
\* on every later one.
C16_ModifiedOnIsCallTime == [][C16_WriteSetsModifiedOn]_vars

C17_CountersNonNegative ==
    \A i \in 1..Len(queue_managers) : \A f \in Counters : queue_managers[i][f] >= 0

C17_NoCounterDecreases ==
    \A i \in 1..Len(queue_managers) : \A f \in Counters :
        /\ i <= Len(queue_managers')
        /\ queue_managers'[i][f] >= queue_managers[i][f]

\* C17: in every reachable state each of the four counters of every manager
\* record is a non-negative integer, and no heartbeat decreases a counter,
\* whatever deltas the callers pass.
C17_CountersMonotone == [](C17_CountersNonNegative) /\ [][C17_NoCounterDecreases]_vars

\* Every record has the time and the tag of one of the calls made for its name
C25_FromOneCall ==
    \A i \in 1..Len(queue_managers) :
        \E n \in 1..Len(beats) :
            /\ beats[n].done
            /\ beats[n].name = queue_managers[i].name
            /\ queue_managers[i].created_on = beats[n].dt
            /\ queue_managers[i].tag = beats[n].tag

\* No step changes the name, created_on or tag of a record or removes one
C25_Kept ==
    \A i \in 1..Len(queue_managers) :
        /\ i <= Len(queue_managers')
        /\ queue_managers'[i].name = queue_managers[i].name
        /\ queue_managers'[i].created_on = queue_managers[i].created_on
        /\ queue_managers'[i].tag = queue_managers[i].tag

\* C25: created_on and tag of a manager record are those of the heartbeat
\* that created it; a later heartbeat for the name, also with another tag,
\* leaves them as they are and changes only the modification time and the
\* counters.
C25_CreatedOnAndTagFixed == [](C25_FromOneCall) /\ [][C25_Kept]_vars

\* A second heartbeat for the name came with another tag and other counters:
\* the record has the tag and the time of the first and the counters of both
C25_Witness ==
    /\ Len(beats) = 2
    /\ beats[1].name = beats[2].name
    /\ beats[1].tag # beats[2].tag
    /\ beats[1].done /\ beats[2].done
    /\ beats[2].deltas.submitted > 0
    /\ \E i \in ManagerDocs(beats[1].name) :
          /\ queue_managers[i].tag = beats[1].tag
          /\ queue_managers[i].created_on = beats[1].dt
          /\ queue_managers[i].modifed_on = beats[2].dt
          /\ queue_managers[i].submitted = beats[1].deltas.submitted + beats[2].deltas.submitted

(***************************************************************************)
(* Properties of handle_hooks                                              *)
(***************************************************************************)
\* The update commands of the call that are addressed to record id, in the
\* order of the call, from the first n hook lists
RECURSIVE CommandsOfList(_, _, _)
CommandsOfList(hook_list, n, id) ==
    IF n = 0 THEN <<>>
    ELSE CommandsOfList(hook_list, n - 1, id)
         \o (IF hook_list[n].document[2] = id THEN hook_list[n].updates ELSE <<>>)

RECURSIVE CommandsFor(_, _, _)
CommandsFor(hooks, n, id) ==
    IF n = 0 THEN <<>>
    ELSE CommandsFor(hooks, n - 1, id) \o CommandsOfList(hooks[n], Len(hooks[n]), id)

\* The document after every one of the commands cmds has taken effect
RECURSIVE AllApplied(_, _, _)
AllApplied(doc, cmds, n) ==
    IF n = 0 THEN doc
    ELSE ApplyOperator(AllApplied(doc, cmds, n - 1),
                       "$" \o cmds[n][1], cmds[n][2], cmds[n][3])

\* C8: the commands a handle_hooks call addresses to one record reach it as one
\* atomic update: at every moment the record is either as it was before the
\* call or shows the effect of every one of those commands, and it shows them
\* all once the call has returned.
C8_HooksMergedPerRecord ==
    \A id \in ServiceIds :
        LET cmds == CommandsFor(hk.hooks, Len(hk.hooks), id)
            done == AllApplied(hk.pre[id], cmds, Len(cmds))
        IN  /\ service_queue[id] \in {hk.pre[id], done}
            /\ hk.pc = "idle" => service_queue[id] = done

(***************************************************************************)
(* Properties of the users                                                 *)
(***************************************************************************)
UserDocs(table, username) == {i \in 1..Len(table) : table[i].username = username}

\* C9: with security bypassed every verify_user call returns (True, "Success"),
\* has not read the users table and has left it as it was.
C9_BypassAlwaysSucceeds ==
    (bypass_security /\ ul.op = "verify_user") =>
        /\ ul.ok /\ ul.msg = "Success"
        /\ ul.reads = 0
        /\ users = ul.pre

\* verify("anyone", "anything", "admin") with bypass, for a user that does not
\* exist while another one does
C9_Witness ==
    /\ bypass_security
    /\ ul.op = "verify_user"
    /\ ul.username = "anyone" /\ ul.password = "anything" /\ ul.permission = "admin"
    /\ UserDocs(users, "anyone") = {}
    /\ UserDocs(users, "george") # {}
    /\ ul.ok

\* C10: add_user for a username that already has a record returns False and
\* leaves the users table as it was, and no username ever has two records.
C10_DuplicateUserRejected ==
    /\ (ul.op = "add_user" /\ UserDocs(ul.pre, ul.username) # {}) =>
          ~ul.ok /\ users = ul.pre
    /\ \A username \in Usernames : Cardinality(UserDocs(users, username)) <= 1

\* add_user for an existing username with another password and other
\* permissions was refused
C10_Witness ==
    /\ ul.op = "add_user"
    /\ ~ul.ok
    /\ \E i \in UserDocs(users, ul.username) :
          /\ ~checkpw(ul.password, users[i].password)
          /\ users[i].permissions # ul.permissions

\* C11: without the bypass, verify_user returns (True, "Success") exactly when
\* the user has a record, the password matches the stored hash, and the
\* record's permissions hold the requested permission (which the call
\* lower-cases) or hold "admin"; every other call returns False with another
\* message, so a holder of "admin" is granted every permission.
C11_SuccessIffAuthorised ==
    (~bypass_security /\ ul.op = "verify_user") =>
        /\ ul.ok <=> (ul.msg = "Success")
        /\ ul.ok <=>
              \E i \in UserDocs(ul.pre, ul.username) :
                 /\ checkpw(ul.password, ul.pre[i].password)
                 /\ \/ LowerPermission(ul.permission) \in ul.pre[i].permissions
                    \/ "admin" \in ul.pre[i].permissions

\* a user holding only "admin" was granted "write"
C11_Witness ==
    /\ ~bypass_security
    /\ ul.op = "verify_user"
    /\ ul.permission = "write"
    /\ ul.ok /\ ul.msg = "Success"
    /\ \E i \in UserDocs(ul.pre, ul.username) : ul.pre[i].permissions = {"admin"}

\* An add_user call without a permission list that succeeds stores the
\* permissions ["read"]
C21_AddStoresRead ==
    \A username \in Usernames, password \in Passwords, salt \in Salts :
        (AddUser(username, password, NoPermissions, salt) /\ ul'.ok) =>
            \E i \in UserDocs(users', username) :
                /\ users'[i].permissions = {"read"}
                /\ checkpw(password, users'[i].password)

\* Without the bypass, a verify_user call with the right password for a user
\* holding exactly ["read"] succeeds for "read" and for nothing else
C21_ReadOnly ==
    (~bypass_security /\ ul.op = "verify_user") =>
        \A i \in UserDocs(ul.pre, ul.username) :
            (ul.pre[i].permissions = {"read"} /\ checkpw(ul.password, ul.pre[i].password))
                => (ul.ok <=> LowerPermission(ul.permission) = "read")

\* C21: a user added by add_user without a permission list holds exactly the
\* read permission: verify_user with the right password succeeds for "read"
\* and fails for "admin", "write", "compute" and "queue".
C21_DefaultIsReadOnly == [](C21_ReadOnly) /\ [][C21_AddStoresRead]_vars

\* A user with the default permissions was refused "admin" with the right
\* password
C21_Witness ==
    /\ ~bypass_security
    /\ ul.op = "verify_user"
    /\ ul.permission = "admin"
    /\ ~ul.ok /\ ul.msg = "User has insufficient permissions."
    /\ \E i \in UserDocs(ul.pre, ul.username) :
          /\ ul.pre[i].permissions = {"read"}
          /\ checkpw(ul.password, ul.pre[i].password)

\* C26: without the bypass a verify_user call leaves the users table as it
\* was and answers a failure with False and its reason, in this order: a
\* username without a record gives "User not found." whatever the password
\* and the permission, a wrong password for a known user gives "Incorrect
\* password." whatever the permission, and "User has insufficient
\* permissions." is given only to a known user with the right password.
C26_FailurePrecedence ==
    (~bypass_security /\ ul.op = "verify_user") =>
        /\ users = ul.pre
        /\ ul.msg \in {"Success", "User not found.", "Incorrect password.",
                       "User has insufficient permissions."}
        /\ ~ul.ok <=> ul.msg # "Success"
        /\ UserDocs(ul.pre, ul.username) = {} => ul.msg = "User not found."
        /\ \A i \in UserDocs(ul.pre, ul.username) :
              /\ ~checkpw(ul.password, ul.pre[i].password) => ul.msg = "Incorrect password."
              /\ ul.msg = "User has insufficient permissions."
                    => checkpw(ul.password, ul.pre[i].password)
        /\ ul.msg = "User has insufficient permissions."
              => UserDocs(ul.pre, ul.username) # {}

\* A wrong password and a permission the user does not hold: the answer is
\* "Incorrect password."
C26_Witness ==
    /\ ~bypass_security
    /\ ul.op = "verify_user"
    /\ ~ul.ok /\ ul.msg = "Incorrect password."
    /\ \E i \in UserDocs(ul.pre, ul.username) :
          /\ ~checkpw(ul.password, ul.pre[i].password)
          /\ LowerPermission(ul.permission) \notin ul.pre[i].permissions
          /\ "admin" \notin ul.pre[i].permissions
====
